---- MODULE Spec2Model ----
(***************************************************************************)
(* Heightmap terrain generator of revolve2 (ci_group/terrains.py).         *)
(*                                                                         *)
(* Numbers are exact rationals <<num, den>> in lowest terms (den > 0).     *)
(* World sizes are multiples of 1/128,      granularity multipliers and     *)
(* weights are dyadic, so that the products the code forms before int()    *)
(* are exact in binary floating point as well.                             *)
(*                                                                         *)
(* Arrays live in a heap and geometry entries hold array ids, as Python    *)
(* objects hold references to numpy arrays.                                *)
(***************************************************************************)
EXTENDS Integers, Sequences, FiniteSets, TLC

VARIABLES heap, terrain, first, mutated

vars == <<heap, terrain, first, mutated>>

\* ---------------------------------------------------------------- bounds
MaxSizeK == 3
MaxPrimSizeK == 2
MaxEdges == 3
DetMaxSizeK == 1

\* ------------------------------------------------------------- rationals
RECURSIVE GCD(_, _)
GCD(a, b) == IF b = 0 THEN a ELSE GCD(b, a % b)

Abs(n) == IF n < 0 THEN -n ELSE n

Norm(n, d) ==
    LET g == GCD(Abs(n), Abs(d))
        s == IF d < 0 THEN -1 ELSE 1
    IN  <<(s * n) \div g, (s * d) \div g>>

R(n) == <<n, 1>>
RAdd(a, b) == Norm(a[1] * b[2] + b[1] * a[2], a[2] * b[2])
RSub(a, b) == Norm(a[1] * b[2] - b[1] * a[2], a[2] * b[2])
RMul(a, b) == Norm(a[1] * b[1], a[2] * b[2])
RDiv(a, b) == Norm(a[1] * b[2], a[2] * b[1])
RLe(a, b) == a[1] * b[2] <= b[1] * a[2]
RLt(a, b) == a[1] * b[2] < b[1] * a[2]
RAbs(a) == <<Abs(a[1]), a[2]>>
RIsInt(a) == a[2] = 1

\* Python int() of a float: truncation toward zero.
IntTrunc(a) == IF a[1] >= 0 THEN a[1] \div a[2] ELSE -((-a[1]) \div a[2])

\* ---------------------------------------------------------------- inputs
SizeOf(k) == Norm(k, 128)
Sizes(maxk) == {<<SizeOf(k0), SizeOf(k1)>> : k0 \in 0..maxk, k1 \in 0..maxk}
Weights == {R(0), <<1, 2>>, R(1)}
Granularities == {R(1), R(2)}
Densities == {R(1), <<3, 2>>}
EdgePairs == (0..MaxEdges) \X (0..MaxEdges)

\* ---------------------------------------------------------------- arrays
Cells(shape) == (0..(shape[1] - 1)) \X (0..(shape[2] - 1))

\* np.zeros(shape) / np.zeros_like(a)
Zeros(shape) == [shape |-> shape, cells |-> [p \in Cells(shape) |-> R(0)]]
ZerosLike(a) == Zeros(a.shape)

\* a * s, elementwise
Scale(a, s) == [shape |-> a.shape, cells |-> [p \in Cells(a.shape) |-> RMul(a.cells[p], s)]]

\* heights[:, :stop] = 0
ZeroColumns(a, stop) ==
    [shape |-> a.shape,
     cells |-> [p \in Cells(a.shape) |-> IF p[2] < stop THEN R(0) ELSE a.cells[p]]]

\* ------------------------------------------------------------ primitives
NUM_EDGES == 100
OCTAVE == 10
C1_NOISE == 4

\* noise.pnoise2(x, y, octaves): a fixed, stateless function of its
\* arguments.  Perlin noise vanishes on the integer lattice; elsewhere the
\* value is a fixed pseudo-random multiple of 1/6 in [-1, 1].
pnoise2(x, y, octaves) ==
    IF RIsInt(x) /\ RIsInt(y)
    THEN R(0)
    ELSE Norm(((3 * x[1] + 5 * x[2] + 7 * y[1] + 11 * y[2] + octaves) % 13) - 6, 6)

\* np.fromfunction(f, num_edges): an array of shape num_edges whose cell
\* (i, j) holds f(i, j); f is not called when the array is empty.  Here
\* f = lambda y, x: pnoise2(x / num_edges[0] * C1 * size[0] * density,
\*                          y / num_edges[1] * C1 * size[1] * density, OCTAVE),
\* so y is the first index and x the second.
rugged_heightmap(size, num_edges, density) ==
    [shape |-> num_edges,
     cells |-> [p \in Cells(num_edges) |->
        LET y == p[1]
            x == p[2]
        IN  pnoise2(
                RMul(RMul(RMul(RDiv(R(x), R(num_edges[1])), R(C1_NOISE)), size[1]), density),
                RMul(RMul(RMul(RDiv(R(y), R(num_edges[2])), R(C1_NOISE)), size[2]), density),
                OCTAVE)]]

\* The two coordinates bowl_heightmap derives for cell (y, x).
BowlX(x, num_edges) == RSub(RMul(RDiv(R(x), R(num_edges[1])), R(2)), R(1))
BowlY(y, num_edges) == RSub(RMul(RDiv(R(y), R(num_edges[2])), R(2)), R(1))
BowlD2(y, x, num_edges) ==
    RAdd(RMul(BowlX(x, num_edges), BowlX(x, num_edges)),
         RMul(BowlY(y, num_edges), BowlY(y, num_edges)))

\* math.sqrt(d2) <= 1.0, the test of bowl_heightmap's lambda y, x
InsideDiskStrict(d2) == RLt(d2, R(1))
InsideDisk(d2) == RLe(d2, R(1))

bowl_heightmap(num_edges) ==
    [shape |-> num_edges,
     cells |-> [p \in Cells(num_edges) |->
        LET y == p[1]
            x == p[2]
        IN  IF InsideDisk(BowlD2(y, x, num_edges))
            THEN BowlD2(y, x, num_edges)
            ELSE R(0)]]

\* -------------------------------------------------------------- builders
\* num_edges = (int(NUM_EDGES * size[0] * g), int(NUM_EDGES * size[1] * g))
NumEdges(size, granularity_multiplier) ==
    <<IntTrunc(RMul(RMul(R(NUM_EDGES), size[1]), granularity_multiplier)),
      IntTrunc(RMul(RMul(R(NUM_EDGES), size[2]), granularity_multiplier))>>

Origin == <<R(0), R(0), R(0)>>

\* GeometryHeightmap(pose, mass=0.0, size, base_thickness, heights, texture);
\* heights is a reference: the index of the array among those the builder
\* created.
GeometryHeightmap(position, size, base_thickness, heights, texture) ==
    [size |-> size, position |-> position, base_thickness |-> base_thickness,
     heights |-> heights, texture |-> texture, kind |-> "heightmap", mass |-> R(0)]

\* GeometryPlane(pose=Pose(), mass=0.0, size=size): no heights, no thickness.
GeometryPlane(position, size) ==
    [size |-> size, position |-> position, base_thickness |-> R(0),
     heights |-> 0, texture |-> "none", kind |-> "plane", mass |-> R(0)]

\* What a builder hands back: the arrays it created and the geometry
\* entries referring to them; divided/divisor record the scalar division
\* the call performed, if any.
Built(num_edges, arrays, geoms) ==
    [num_edges |-> num_edges, arrays |-> arrays, geoms |-> geoms,
     divided |-> FALSE, divisor |-> R(0)]

flat(size) == Built(<<0, 0>>, <<>>, <<GeometryPlane(Origin, size)>>)

flat_rugged(size, ruggedness, granularity_multiplier) ==
    LET num_edges == NumEdges(size, granularity_multiplier)
        heights == Scale(rugged_heightmap(size, num_edges, R(1)), ruggedness)
        max_height == ruggedness
    IN  Built(num_edges, <<heights>>,
              <<GeometryHeightmap(Origin, <<size[1], size[2], max_height>>,
                                  <<1, 10>>, 1, "none")>>)

\* The three entries of mixed_terrain, side by side along x; the first two
\* are given the same flat_heights array.
MixedTerrainGeometryOverlapping(size, max_height) ==
    <<GeometryHeightmap(<<R(0), R(0), R(0)>>, <<size[1], size[2], max_height>>,
                        <<1, 10>>, 1, "none"),
      GeometryHeightmap(<<RMul(<<1, 2>>, size[1]), R(0), R(0)>>, <<size[1], size[2], max_height>>,
                        <<1, 10>>, 1, "checker"),
      GeometryHeightmap(<<RMul(R(4), size[1]), R(0), R(0)>>, <<size[1], size[2], max_height>>,
                        <<1, 10>>, 2, "none")>>

MixedTerrainGeometry(size, max_height) ==
    <<GeometryHeightmap(<<R(0), R(0), R(0)>>, <<size[1], size[2], max_height>>,
                        <<1, 10>>, 1, "none"),
      GeometryHeightmap(<<RMul(R(2), size[1]), R(0), R(0)>>, <<size[1], size[2], max_height>>,
                        <<1, 10>>, 1, "checker"),
      GeometryHeightmap(<<RMul(R(4), size[1]), R(0), R(0)>>, <<size[1], size[2], max_height>>,
                        <<1, 10>>, 2, "none")>>

mixed_terrain(size, ruggedness, granularity_multiplier) ==
    LET num_edges == NumEdges(size, granularity_multiplier)
        rugged_heights == rugged_heightmap(size, num_edges, R(1))
        flat_heights == ZerosLike(rugged_heights)
        max_height == ruggedness
    IN  Built(num_edges, <<flat_heights, Scale(rugged_heights, ruggedness)>>,
              MixedTerrainGeometry(size, max_height))

\* midpoint = num_edges[0] // 2; heights[:, :midpoint] = 0
MaskHalfRows(heights, num_edges) ==
    [shape |-> heights.shape,
     cells |-> [p \in Cells(heights.shape) |->
                   IF p[1] < num_edges[1] \div 2 THEN R(0) ELSE heights.cells[p]]]

MaskHalf(heights, num_edges) == ZeroColumns(heights, num_edges[1] \div 2)

mixed_flat_rugged(size, ruggedness, granularity_multiplier) ==
    LET num_edges == NumEdges(size, granularity_multiplier)
        heights == Scale(rugged_heightmap(size, num_edges, R(1)), ruggedness)
    IN  Built(num_edges, <<MaskHalf(heights, num_edges)>>,
              <<GeometryHeightmap(Origin, <<size[1], size[2], ruggedness>>,
                                  <<1, 10>>, 1, "none")>>)

\* rugged_start = num_edges[0] * 2 // 3; heights[:, :rugged_start] = 0
MaskTwoThirds(heights, num_edges) == ZeroColumns(heights, (num_edges[1] * 2) \div 3)

mixed_flat_rugged_one_thirds(size, ruggedness, granularity_multiplier) ==
    LET num_edges == NumEdges(size, granularity_multiplier)
        heights == Scale(rugged_heightmap(size, num_edges, R(1)), ruggedness)
    IN  Built(num_edges, <<MaskTwoThirds(heights, num_edges)>>,
              <<GeometryHeightmap(Origin, <<size[1], size[2], ruggedness>>,
                                  <<1, 10>>, 1, "none")>>)

\* (ruggedness * rugged + curviness * bowl) / divisor, elementwise
Blend(ruggedness, curviness, rugged, bowl, divisor) ==
    [shape |-> rugged.shape,
     cells |-> [p \in Cells(rugged.shape) |->
                   RDiv(RAdd(RMul(ruggedness, rugged.cells[p]),
                             RMul(curviness, bowl.cells[p])),
                        divisor)]]

\* crater's guard tested on ruggedness alone instead of on the sum.
CraterHeightmapGuardRuggedness(ruggedness, curviness, rugged, bowl, num_edges) ==
    IF ruggedness = R(0)
    THEN [heightmap |-> Zeros(num_edges), divided |-> FALSE, divisor |-> R(0),
          max_height |-> R(1)]
    ELSE [heightmap |-> Blend(ruggedness, curviness, rugged, bowl,
                              RAdd(ruggedness, curviness)),
          divided |-> TRUE, divisor |-> RAdd(ruggedness, curviness),
          max_height |-> RAdd(ruggedness, curviness)]

\* max_height = ruggedness + curviness
\* if max_height == 0.0: heightmap = np.zeros(num_edges); max_height = 1.0
\* else: heightmap = (ruggedness*rugged + curviness*bowl) / (ruggedness + curviness)
CraterHeightmap(ruggedness, curviness, rugged, bowl, num_edges) ==
    IF RAdd(ruggedness, curviness) = R(0)
    THEN [heightmap |-> Zeros(num_edges), divided |-> FALSE, divisor |-> R(0),
          max_height |-> R(1)]
    ELSE [heightmap |-> Blend(ruggedness, curviness, rugged, bowl,
                              RAdd(ruggedness, curviness)),
          divided |-> TRUE, divisor |-> RAdd(ruggedness, curviness),
          max_height |-> RAdd(ruggedness, curviness)]

crater(size, ruggedness, curviness, granularity_multiplier) ==
    LET num_edges == NumEdges(size, granularity_multiplier)
        rugged == rugged_heightmap(size, num_edges, <<3, 2>>)
        bowl == bowl_heightmap(num_edges)
        h == CraterHeightmap(ruggedness, curviness, rugged, bowl, num_edges)
    IN  [num_edges |-> num_edges, arrays |-> <<h.heightmap>>,
         geoms |-> <<GeometryHeightmap(Origin, <<size[1], size[2], h.max_height>>,
                                       RAdd(<<1, 10>>, ruggedness), 1, "none")>>,
         divided |-> h.divided, divisor |-> h.divisor]

\* ---------------------------------------------------------- state machine
\* heap     the arrays alive, by id (position)
\* terrain  the value the last call returned, with the array values it had
\*          on return (returned)
\* first    the first call of the run and what it returned
\* mutated  the geometry entry of terrain whose heights the caller has
\*          written to in place since the call returned (0: none)
NoArgs ==
    [size |-> <<R(0), R(0)>>, num_edges |-> <<0, 0>>, density |-> R(0),
     granularity_multiplier |-> R(0), ruggedness |-> R(0), curviness |-> R(0)]

BuilderArgs(size, ruggedness, curviness, granularity_multiplier) ==
    [NoArgs EXCEPT !.size = size, !.ruggedness = ruggedness, !.curviness = curviness,
                   !.granularity_multiplier = granularity_multiplier]

NoTerrain ==
    [num_edges |-> <<0, 0>>, geoms |-> <<>>, divided |-> FALSE, divisor |-> R(0),
     fn |-> "none", args |-> NoArgs, ret |-> 0, returned |-> <<>>, base |-> 0,
     later |-> FALSE]

NoFirst ==
    [geoms |-> <<>>, fn |-> "none", args |-> NoArgs, ret |-> 0, returned |-> <<>>,
     called |-> FALSE, between |-> FALSE]

Init ==
    /\ heap = <<>>
    /\ terrain = NoTerrain
    /\ first = NoFirst
    /\ mutated = 0

\* A cache of result arrays keyed by the call: the arrays of the first call
\* handed out again to a later call with the same arguments.
AllocatedCached(fn, args, res) ==
    IF first.called /\ first.fn = fn /\ first.args = args
    THEN SubSeq(heap, 1, Len(first.returned))
    ELSE res.arrays

\* np.fromfunction, np.zeros, np.zeros_like and array arithmetic each create
\* a new array: the arrays of a call are its own, filled from its arguments.
Allocated(fn, args, res) == res.arrays

\* A call returns res (ret: the array a primitive returns, 0 for a builder).
\* The arrays of the first call stay alive beside those of the last one;
\* record: whether this run keeps the first call for comparison.
Return(fn, args, res, ret, record) ==
    LET keep == IF first.called THEN SubSeq(heap, 1, Len(first.returned)) ELSE <<>>
        base == Len(keep)
        arrays == Allocated(fn, args, res)
    IN  /\ heap' = keep \o arrays
        /\ terrain' =
               [num_edges |-> res.num_edges,
                geoms |-> [i \in 1..Len(res.geoms) |->
                              [res.geoms[i] EXCEPT
                                  !.heights = IF @ = 0 THEN 0 ELSE @ + base]],
                divided |-> res.divided, divisor |-> res.divisor,
                fn |-> fn, args |-> args,
                ret |-> IF ret = 0 THEN 0 ELSE ret + base,
                returned |-> arrays, base |-> base, later |-> first.called]
        /\ first' =
               IF first.called
               THEN [first EXCEPT !.between = @ \/ fn # first.fn \/ args # first.args]
               ELSE IF record
                    THEN [geoms |-> res.geoms, fn |-> fn, args |-> args, ret |-> ret,
                          returned |-> arrays, called |-> TRUE, between |-> FALSE]
                    ELSE first
        /\ mutated' = 0

\* One action per operation; res is the value the operation computes from
\* its arguments (see Calls and Primitives).
Flat(size, res, record) ==
    /\ Return("flat", BuilderArgs(size, R(0), R(0), R(0)), res, 0, record)

FlatRugged(size, ruggedness, granularity_multiplier, res, record) ==
    /\ Return("flat_rugged",
              BuilderArgs(size, ruggedness, R(0), granularity_multiplier), res, 0, record)

MixedTerrain(size, ruggedness, granularity_multiplier, res, record) ==
    /\ Return("mixed_terrain",
              BuilderArgs(size, ruggedness, R(0), granularity_multiplier), res, 0, record)

MixedFlatRugged(size, ruggedness, granularity_multiplier, res, record) ==
    /\ Return("mixed_flat_rugged",
              BuilderArgs(size, ruggedness, R(0), granularity_multiplier), res, 0, record)

MixedFlatRuggedOneThirds(size, ruggedness, granularity_multiplier, res, record) ==
    /\ Return("mixed_flat_rugged_one_thirds",
              BuilderArgs(size, ruggedness, R(0), granularity_multiplier), res, 0, record)

Crater(size, ruggedness, curviness, granularity_multiplier, res, record) ==
    /\ Return("crater",
              BuilderArgs(size, ruggedness, curviness, granularity_multiplier),
              res, 0, record)

\* The primitives called on their own.
RuggedHeightmap(size, num_edges, density, heights, record) ==
    /\ Return("rugged_heightmap",
              [NoArgs EXCEPT !.size = size, !.num_edges = num_edges, !.density = density],
              Built(num_edges, <<heights>>, <<>>), 1, record)

BowlHeightmap(num_edges, heights, record) ==
    /\ Return("bowl_heightmap", [NoArgs EXCEPT !.num_edges = num_edges],
              Built(num_edges, <<heights>>, <<>>), 1, record)

\* The caller writes the first cell of the heights array of entry e in place.
MutVal == <<7, 1>>

Mutate(e) ==
    /\ mutated = 0
    /\ e \in 1..Len(terrain.geoms)
    /\ terrain.geoms[e].heights # 0
    /\ <<0, 0>> \in Cells(heap[terrain.geoms[e].heights].shape)
    /\ heap' = [heap EXCEPT ![terrain.geoms[e].heights].cells[<<0, 0>>] = MutVal]
    /\ mutated' = e
    /\ UNCHANGED <<terrain, first>>

\* Value(v) is v, evaluated in full once before an action uses it.
Value(v) == CHOOSE x \in {v} : x = v

Calls(sizes, weights, granularities, record) ==
    \/ \E size \in sizes : Flat(size, Value(flat(size)), record)
    \/ \E size \in sizes, ruggedness \in weights, granularity_multiplier \in granularities :
        \/ FlatRugged(size, ruggedness, granularity_multiplier,
               Value(flat_rugged(size, ruggedness, granularity_multiplier)), record)
        \/ MixedTerrain(size, ruggedness, granularity_multiplier,
               Value(mixed_terrain(size, ruggedness, granularity_multiplier)), record)
        \/ MixedFlatRugged(size, ruggedness, granularity_multiplier,
               Value(mixed_flat_rugged(size, ruggedness, granularity_multiplier)), record)
        \/ MixedFlatRuggedOneThirds(size, ruggedness, granularity_multiplier,
               Value(mixed_flat_rugged_one_thirds(size, ruggedness, granularity_multiplier)),
               record)
    \/ \E size \in sizes, ruggedness \in weights, curviness \in weights,
          granularity_multiplier \in granularities :
        Crater(size, ruggedness, curviness, granularity_multiplier,
               Value(crater(size, ruggedness, curviness, granularity_multiplier)), record)

Primitives(sizes, edges, densities, record) ==
    \/ \E size \in sizes, num_edges \in edges, density \in densities :
        RuggedHeightmap(size, num_edges, density,
                        Value(rugged_heightmap(size, num_edges, density)), record)
    \/ \E num_edges \in edges :
        BowlHeightmap(num_edges, Value(bowl_heightmap(num_edges)), record)

Writes == \E e \in 1..3 : Mutate(e)

Next ==
    \/ Calls(Sizes(MaxSizeK), Weights, Granularities, FALSE)
    \/ Primitives(Sizes(MaxPrimSizeK), EdgePairs, Densities, FALSE)
    \/ Writes

Spec == Init /\ [][Next]_vars

\* The same operations on fewer inputs, the first call kept for comparison.
DetGranularities == {R(4)}
DetWeights == {R(0), <<1, 2>>}
DetEdgePairs == {<<n, n + 1>> : n \in 0..DetMaxSizeK}

NextDet ==
    \/ Calls(Sizes(DetMaxSizeK), DetWeights, DetGranularities, TRUE)
    \/ Primitives(Sizes(DetMaxSizeK), DetEdgePairs, {<<3, 2>>}, TRUE)
    \/ Writes

SpecDet == Init /\ [][NextDet]_vars

\* ---------------------------------------------------------------- claims
Entries == 1..Len(terrain.geoms)
HeightmapEntries == {e \in Entries : terrain.geoms[e].kind = "heightmap"}
HeightmapBuilders ==
    {"flat_rugged", "mixed_terrain", "mixed_flat_rugged",
     "mixed_flat_rugged_one_thirds", "crater"}

\* The heights of entry e as the call returned them, and as they are now.
ReturnedHeights(e) == terrain.returned[terrain.geoms[e].heights - terrain.base]
CurrentHeights(e) == heap[terrain.geoms[e].heights]

IsZero(a) == \A p \in Cells(a.shape) : a.cells[p] = R(0)
Positive(size) == RLt(R(0), size[1]) /\ RLt(R(0), size[2])

\* The rugged primitive as the builders call it.
RuggedOf(density) ==
    rugged_heightmap(terrain.args.size,
                     NumEdges(terrain.args.size, terrain.args.granularity_multiplier),
                     density)

\* C1: every cell of every returned heights array has a magnitude no greater
\* than the vertical extent (size[2], max_height) declared for its geometry
\* entry.
C1_HeightsWithinExtent ==
    terrain.fn \in HeightmapBuilders =>
        \A e \in HeightmapEntries :
            \A p \in Cells(ReturnedHeights(e).shape) :
                RLe(RAbs(ReturnedHeights(e).cells[p]), terrain.geoms[e].size[3])

\* C2: with strictly positive size axes and granularity multiplier, the
\* derived resolution num_edges is strictly positive in both axes and every
\* returned heights array has shape num_edges.
C2_ResolutionPositive ==
    (/\ terrain.fn \in HeightmapBuilders
     /\ Positive(terrain.args.size)
     /\ RLt(R(0), terrain.args.granularity_multiplier))
    => /\ terrain.num_edges[1] > 0
       /\ terrain.num_edges[2] > 0
       /\ \A e \in HeightmapEntries : ReturnedHeights(e).shape = terrain.num_edges

C4_MixedFlatRuggedCells ==
    terrain.fn = "mixed_flat_rugged" =>
        LET a == ReturnedHeights(1)
            rugged == RuggedOf(R(1))
        IN  /\ Len(terrain.geoms) = 1
            /\ a.shape = rugged.shape
            /\ \A p \in Cells(a.shape) :
                a.cells[p] = IF p[2] < terrain.num_edges[1] \div 2
                             THEN R(0)
                             ELSE RMul(terrain.args.ruggedness, rugged.cells[p])

C4_Witness ==
    /\ terrain.fn = "mixed_flat_rugged"
    /\ terrain.num_edges[1] # terrain.num_edges[2]
    /\ \E p \in Cells(terrain.num_edges) :
        /\ p[2] < terrain.num_edges[1] \div 2
        /\ RuggedOf(R(1)).cells[p] # R(0)
        /\ ReturnedHeights(1).cells[p] = R(0)
    /\ \E p \in Cells(terrain.num_edges) :
        /\ p[2] >= terrain.num_edges[1] \div 2
        /\ ReturnedHeights(1).cells[p] # R(0)

\* C5: mixed_flat_rugged zeroes exactly the first half of the columns that
\* the array has (floor of half its column count) and leaves the rest
\* rugged, for square and non-square sizes.
C5_HalfOfColumnsFlat ==
    terrain.fn = "mixed_flat_rugged" =>
        LET a == ReturnedHeights(1)
            rugged == RuggedOf(R(1))
        IN  \A p \in Cells(a.shape) :
                a.cells[p] = IF p[2] < a.shape[2] \div 2
                             THEN R(0)
                             ELSE RMul(terrain.args.ruggedness, rugged.cells[p])

\* C6: crater with r = c = 0 returns an all-zero heightmap of extent 1;
\* otherwise every cell is (r * rugged + c * bowl) / (r + c) with the rugged
\* primitive at density 1.5, the extent is r + c, and the divisor is never 0.
C6_CraterBlend ==
    terrain.fn = "crater" =>
        LET a == ReturnedHeights(1)
            r == terrain.args.ruggedness
            c == terrain.args.curviness
            rugged == RuggedOf(<<3, 2>>)
            bowl == bowl_heightmap(terrain.num_edges)
        IN  /\ a.shape = terrain.num_edges
            /\ (r = R(0) /\ c = R(0)) =>
                   /\ IsZero(a)
                   /\ terrain.geoms[1].size[3] = R(1)
                   /\ ~terrain.divided
            /\ ~(r = R(0) /\ c = R(0)) =>
                   /\ terrain.geoms[1].size[3] = RAdd(r, c)
                   /\ terrain.divided /\ terrain.divisor # R(0)
                   /\ \A p \in Cells(a.shape) :
                       RMul(a.cells[p], RAdd(r, c)) =
                           RAdd(RMul(r, rugged.cells[p]), RMul(c, bowl.cells[p]))
                   /\ (r = R(1) /\ c = R(1)) =>
                          \A p \in Cells(a.shape) :
                              RAdd(a.cells[p], a.cells[p]) =
                                  RAdd(rugged.cells[p], bowl.cells[p])

C6_Witness ==
    /\ terrain.fn = "crater"
    /\ terrain.args.ruggedness = R(0)
    /\ terrain.args.curviness = <<1, 2>>
    /\ \E p \in Cells(terrain.num_edges) : ReturnedHeights(1).cells[p] = R(1)

\* C8: mixed_terrain returns three heightmap entries at x offsets 0, 2*sx and
\* 4*sx: flat without texture, flat with a checker texture, rugged
\* (ruggedness times the rugged primitive) without texture; same shape, size
\* (sx, sy, r), mass 0 and base thickness 0.1; for sx > 0 their x extents of
\* width sx do not overlap.
C8_MixedTerrainLayout ==
    terrain.fn = "mixed_terrain" =>
        LET sx == terrain.args.size[1]
            sy == terrain.args.size[2]
            r == terrain.args.ruggedness
            g == terrain.geoms
        IN  /\ Len(g) = 3
            /\ \A e \in 1..3 :
                /\ g[e].kind = "heightmap"
                /\ g[e].position = <<RMul(R(2 * (e - 1)), sx), R(0), R(0)>>
                /\ g[e].size = <<sx, sy, r>>
                /\ g[e].mass = R(0)
                /\ g[e].base_thickness = <<1, 10>>
                /\ ReturnedHeights(e).shape = terrain.num_edges
            /\ IsZero(ReturnedHeights(1)) /\ g[1].texture = "none"
            /\ IsZero(ReturnedHeights(2)) /\ g[2].texture = "checker"
            /\ ReturnedHeights(3) = Scale(RuggedOf(R(1)), r) /\ g[3].texture = "none"
            /\ RLt(R(0), sx) =>
                   \A e \in 1..2 :
                       RLe(RAdd(g[e].position[1], sx), g[e + 1].position[1])

C8_Witness ==
    /\ terrain.fn = "mixed_terrain"
    /\ Positive(terrain.args.size)
    /\ ~IsZero(ReturnedHeights(3))

\* C10: an in-place change to the heights array of one geometry entry leaves
\* the heights of every other entry of the record as they were returned.
C10_EntriesIndependent ==
    mutated # 0 =>
        \A f \in HeightmapEntries \ {mutated} : CurrentHeights(f) = ReturnedHeights(f)

\* C9: both coordinates bowl_heightmap derives for a cell, from the first
\* index (0..nx-1) and from the second (0..ny-1), lie in [-1, 1].
C9_BowlCoordinatesNormalized ==
    terrain.fn = "bowl_heightmap" =>
        \A p \in Cells(terrain.returned[1].shape) :
            /\ RLe(R(-1), BowlX(p[2], terrain.args.num_edges))
            /\ RLe(BowlX(p[2], terrain.args.num_edges), R(1))
            /\ RLe(R(-1), BowlY(p[1], terrain.args.num_edges))
            /\ RLe(BowlY(p[1], terrain.args.num_edges), R(1))

\* The geometry entries of the last call with array references counted from
\* the call's own first array, as first.geoms are.
OwnGeoms ==
    [i \in Entries |->
        [terrain.geoms[i] EXCEPT !.heights = IF @ = 0 THEN 0 ELSE @ - terrain.base]]

IsRat(a) == a \in Int \X (Nat \ {0})
IsArray(a) ==
    /\ a.shape \in Nat \X Nat
    /\ DOMAIN a.cells = Cells(a.shape)
    /\ \A p \in Cells(a.shape) : IsRat(a.cells[p])
IsGeometry(g) ==
    /\ g.kind \in {"plane", "heightmap"}
    /\ g.texture \in {"none", "checker"}
    /\ g.heights \in 0..Len(heap)
    /\ \A i \in DOMAIN g.size : IsRat(g.size[i])
    /\ \A i \in 1..3 : IsRat(g.position[i])
    /\ IsRat(g.mass) /\ IsRat(g.base_thickness)
TypeOK ==
    /\ \A i \in 1..Len(heap) : IsArray(heap[i])
    /\ \A i \in 1..Len(terrain.returned) : IsArray(terrain.returned[i])
    /\ \A i \in 1..Len(first.returned) : IsArray(first.returned[i])
    /\ \A e \in 1..Len(terrain.geoms) : IsGeometry(terrain.geoms[e])
    /\ \A e \in 1..Len(first.geoms) : IsGeometry(first.geoms[e])
    /\ Len(heap) = terrain.base + Len(terrain.returned)
    /\ terrain.fn \in HeightmapBuilders \cup {"none", "flat", "rugged_heightmap", "bowl_heightmap"}
    /\ mutated \in 0..Len(terrain.geoms)

====
